---------------------------- MODULE Spec2Model ----------------------------
(***************************************************************************)
(* PO_TesserXtract: the OCR field-extraction pipeline of src/Code2.py      *)
(* and of src/Code1.py, an earlier variant with the same upload handler     *)
(* whose process_file skips the thresholding, searches case-sensitively     *)
(* and strips the captured value instead of cleaning it.                    *)
(*                                                                         *)
(* upload() validates the request, saves the files, creates an             *)
(* mp.Pool(processes=len(filenames)), submits one process_file task per    *)
(* file with apply_async, collects the results with result.get() in        *)
(* submission order, closes and joins the pool and builds the response.    *)
(* process_file() reads the image, runs OCR and applies every regex of     *)
(* `patterns` to the recognised text.                                      *)
(*                                                                         *)
(* Text is a sequence of characters over a small alphabet; a pattern of    *)
(* the shape  LITERAL\s*(CLASS+)  is a record [lit, cls, groups], and      *)
(* re.search is computed position by position with the greedy \s* and its  *)
(* backtracking.                                                           *)
(***************************************************************************)
EXTENDS Integers, Sequences, FiniteSets, TLC

VARIABLES
    variant,      \* which of the two programs runs: "Code1" or "Code2"
    patterns,     \* the module-level rule table: a sequence of rules (dict order)
    files,        \* request.files.getlist('files[]')
    pc,           \* where upload() is: "request", "collect", "returned", "raised"
    filenames,    \* the generated unique filenames, in submission order
    pool,         \* the mp.Pool: [state, processes]
    task,         \* per submitted task: "queued", "running", "done"
    results,      \* the AsyncResult of each task
    fields_list,  \* the values collected by result.get() so far
    response,     \* what upload() returned
    exc           \* the exception that left upload(), "none" if none

vars == <<variant, patterns, files, pc, filenames, pool, task, results, fields_list,
          response, exc>>

-----------------------------------------------------------------------------
(* Bounds of the model *)

\* longest recognised text drawn in InitExtract
MaxLen == 4

\* largest batch drawn in Init (one over-limit batch is drawn besides)
MaxBatch == 3

-----------------------------------------------------------------------------
(* Program constants *)

MAX_FILES == 10

MAX_CONTENT_LENGTH == 5 * 1024 * 1024

SENTINEL == "Not an Invoice Image"

-----------------------------------------------------------------------------
(* Characters and text *)

WS == {" ", "\n"}

Chars == {"p", "P", "7", " ", "\n"}

\* str.lower() on one character
Lower(c) == IF c = "P" THEN "p" ELSE c

\* how re compares a character: case-folded under re.IGNORECASE (ic)
Fold(ic, c) == IF ic THEN Lower(c) ELSE c

RECURSIVE SeqsUpTo(_, _)
SeqsUpTo(S, n) ==
    IF n = 0 THEN {<<>>}
    ELSE LET shorter == SeqsUpTo(S, n - 1)
         IN  shorter \cup {Append(s, c) : s \in {t \in shorter : Len(t) = n - 1}, c \in S}

Min(S) == CHOOSE x \in S : \A y \in S : x <= y

Max(S) == CHOOSE x \in S : \A y \in S : x >= y

-----------------------------------------------------------------------------
(* re.search(pattern, invoice_text[, re.IGNORECASE]) for LITERAL\s*(CLASS+); *)
(* ic says whether re.IGNORECASE is given                                   *)

\* a character class
InClass(ic, c, cls) == \E x \in cls : Fold(ic, x) = Fold(ic, c)

\* how many consecutive characters of text, from position j on, are in the
\* class S (a greedy run)
RECURSIVE RunLen(_, _, _, _)
RunLen(ic, text, j, S) ==
    IF j > Len(text) \/ ~InClass(ic, text[j], S) THEN 0
    ELSE 1 + RunLen(ic, text, j + 1, S)

\* the literal of the pattern stands at position i
LitAt(ic, r, text, i) ==
    /\ i + Len(r.lit) - 1 <= Len(text)
    /\ \A j \in 1..Len(r.lit) : Fold(ic, text[i + j - 1]) = Fold(ic, r.lit[j])

\* where the group starts when \s*(CLASS+) is matched from position j0 on:
\* \s* takes the whole whitespace run and gives characters back until a
\* character of the class follows; 0 if the class cannot start
GroupStart(ic, r, text, j0) ==
    LET wsRun == RunLen(ic, text, j0, WS)
        ks    == {k \in 0..wsRun :
                     /\ j0 + k <= Len(text)
                     /\ InClass(ic, text[j0 + k], r.cls)}
    IN  IF ks = {} THEN 0 ELSE j0 + Max(ks)

\* the pattern matches with its literal at position i
MatchesAt(ic, r, text, i) ==
    LitAt(ic, r, text, i) /\ GroupStart(ic, r, text, i + Len(r.lit)) # 0

NoMatch == [found |-> FALSE, at |-> 0, whole |-> <<>>, capture |-> <<>>, stop |-> 0]

\* the match object of the pattern anchored at position i: the literal, then
\* \s*, then CLASS+ (greedy)
MatchAt(ic, r, text, i) ==
    IF ~MatchesAt(ic, r, text, i) THEN NoMatch
    ELSE LET n     == Len(r.lit)
             start == GroupStart(ic, r, text, i + n)
             len   == RunLen(ic, text, start, r.cls)
         IN  [found   |-> TRUE,
              at      |-> i,
              whole   |-> SubSeq(text, i, i + n - 1),
              capture |-> SubSeq(text, start, start + len - 1),
              stop    |-> start + len - 1]

\* re.search: the leftmost position where the pattern matches
SearchWith(ic, r, text) ==
    LET hits == {i \in 1..Len(text) : MatchesAt(ic, r, text, i)}
    IN  IF hits = {} THEN NoMatch ELSE MatchAt(ic, r, text, Min(hits))

\* Code2 passes re.IGNORECASE, Code1 passes no flag
IgnoreCase == variant = "Code2"

Search(r, text) == SearchWith(IgnoreCase, r, text)

\* match.group(1): the first capture group; with two groups the first one
\* wraps the literal, with none the call raises IndexError
HasGroup1(r) == r.groups >= 1

Group1(r, m) == IF r.groups = 1 THEN m.capture ELSE m.whole

-----------------------------------------------------------------------------
(* clean_text: re.sub(r'\s+', ' ', text).strip() *)

RECURSIVE CollapseFrom(_, _)
CollapseFrom(s, i) ==
    IF i > Len(s) THEN <<>>
    ELSE IF s[i] \in WS
         THEN IF i > 1 /\ s[i - 1] \in WS
              THEN CollapseFrom(s, i + 1)
              ELSE <<" ">> \o CollapseFrom(s, i + 1)
         ELSE <<s[i]>> \o CollapseFrom(s, i + 1)

Strip(s) ==
    LET keep == {i \in 1..Len(s) : s[i] \notin WS}
    IN  IF keep = {} THEN <<>> ELSE SubSeq(s, Min(keep), Max(keep))

clean_text(text) == Strip(CollapseFrom(text, 1))

\* the value stored for a field: clean_text(match.group(1)) in Code2,
\* match.group(1).strip() in Code1
FieldValue(g) == IF variant = "Code2" THEN clean_text(g) ELSE Strip(g)

-----------------------------------------------------------------------------
(* The rule table `patterns`: name -> LITERAL\s*(CLASS+).  The table is     *)
(* configuration (Code1 imports it from views.regex_pattern), so the model  *)
(* draws it from the rules below, two of which do not have exactly one      *)
(* capture group.                                                           *)

\* like  r"PR Number\s*(\d+)"
RuleDigits == [name |-> "PR Number", lit |-> <<"P">>, cls |-> {"7"}, groups |-> 1]

\* like  r"Vendor Payment Terms\s*([%A-Za-z\s,]+)"
RuleWords ==
    [name |-> "Vendor Payment Terms", lit |-> <<"7">>,
     cls |-> {"p", "P", " ", "\n"}, groups |-> 1]

\* r"Cost Estimate\s*\d+": no capture group
RuleNoGroup == [name |-> "Cost Estimate", lit |-> <<"P">>, cls |-> {"7"}, groups |-> 0]

\* r"(Budget Allocated)\s*(\d+)": two capture groups
RuleTwoGroups ==
    [name |-> "Budget Allocated", lit |-> <<"P">>, cls |-> {"7"}, groups |-> 2]

RuleUniverse == <<RuleDigits, RuleWords, RuleNoGroup, RuleTwoGroups>>

\* every table made of distinct rules of the universe, in the universe's
\* order (a dict keeps insertion order)
RuleSets ==
    LET n     == Len(RuleUniverse)
        picks == {s \in SeqsUpTo(1..n, n) : \A i \in 1..(Len(s) - 1) : s[i] < s[i + 1]}
    IN  {[i \in 1..Len(s) |-> RuleUniverse[s[i]]] : s \in picks}

\* the tables the batch specification draws: the valid one and two with an
\* invalid rule
BatchRuleSets ==
    {<<RuleDigits, RuleWords>>, <<RuleDigits, RuleNoGroup>>, <<RuleTwoGroups, RuleWords>>}

-----------------------------------------------------------------------------
(* process_file *)

\* the loop over patterns.items(): fields[key] = the value of match.group(1)
\* for every rule that matches; group(1) of a rule without a group raises
RECURSIVE ExtractFrom(_, _, _, _)
ExtractFrom(rules, i, text, fields) ==
    IF i > Len(rules) THEN [exc |-> "none", fields |-> fields]
    ELSE LET r == rules[i]
             m == Search(r, text)
         IN  IF ~m.found THEN ExtractFrom(rules, i + 1, text, fields)
             ELSE IF ~HasGroup1(r) THEN [exc |-> "IndexError", fields |-> fields]
             ELSE ExtractFrom(rules, i + 1, text,
                              (r.name :> FieldValue(Group1(r, m))) @@ fields)

\* the same loop, each rule searching only what follows the previous match
RECURSIVE ExtractConsumingFrom(_, _, _, _)
ExtractConsumingFrom(rules, i, text, fields) ==
    IF i > Len(rules) THEN [exc |-> "none", fields |-> fields]
    ELSE LET r == rules[i]
             m == Search(r, text)
         IN  IF ~m.found THEN ExtractConsumingFrom(rules, i + 1, text, fields)
             ELSE IF ~HasGroup1(r) THEN [exc |-> "IndexError", fields |-> fields]
             ELSE ExtractConsumingFrom(rules, i + 1,
                                       SubSeq(text, m.stop + 1, Len(text)),
                                       (r.name :> FieldValue(Group1(r, m))) @@ fields)

ExtractFieldsConsuming(rules, text) == ExtractConsumingFrom(rules, 1, text, <<>>)

\* fields = {} and the loop
ExtractFields(rules, text) == ExtractFrom(rules, 1, text, <<>>)

\* a threshold of two fields before the map counts
OutcomeMinTwo(fields) ==
    IF Cardinality(DOMAIN fields) < 2
    THEN [tag |-> "sentinel", text |-> SENTINEL, fields |-> <<>>]
    ELSE [tag |-> "fields", text |-> "", fields |-> fields]

\* if not fields: the sentinel string, else the dict
Outcome(fields) ==
    IF DOMAIN fields = {}
    THEN [tag |-> "sentinel", text |-> SENTINEL, fields |-> <<>>]
    ELSE [tag |-> "fields", text |-> "", fields |-> fields]

NoOutcome == [tag |-> "none", text |-> "", fields |-> <<>>]

Raised(e) == [ok |-> FALSE, exc |-> e, value |-> <<0, NoOutcome>>]

Returned(v) == [ok |-> TRUE, exc |-> "none", value |-> v]

\* cv2.imread gives None for an undecodable file: cv2.cvtColor(None) raises
\* cv2.error in Code2, pytesseract.image_to_string(None) raises TypeError in
\* Code1
ImreadFailure == IF variant = "Code2" THEN "cv2.error" ELSE "TypeError"

\* process_file(path): the image is read (and thresholded in Code2), OCR
\* runs and may raise, then the rule loop.  Returns (basename(path), outcome).
process_file(filename, doc, rules) ==
    IF ~doc.decodable THEN Raised(ImreadFailure)
    ELSE IF doc.ocr = "raises" THEN Raised("TesseractError")
    ELSE LET e == ExtractFields(rules, doc.text)
         IN  IF e.exc # "none" THEN Raised(e.exc)
             ELSE Returned(<<filename, Outcome(e.fields)>>)

\* pytesseract.image_to_string never returns (it is called without timeout)
Hangs(doc) == doc.decodable /\ doc.ocr = "hangs"

-----------------------------------------------------------------------------
(* Uploaded files.  A file is its extension, its content_length, whether    *)
(* cv2.imread can decode it, how the OCR call behaves on it and the text    *)
(* the OCR call recognises.                                                 *)

SmallFile == 1024

Doc(e, size, dec, o, t) ==
    [ext |-> e, content_length |-> size, decodable |-> dec, ocr |-> o, text |-> t]

DocMatch == Doc("png", SmallFile, TRUE, "ok", <<"P", " ", "7">>)

DocWords == Doc("jpg", SmallFile, TRUE, "ok", <<"7", "p">>)

DocNoMatch == Doc("png", SmallFile, TRUE, "ok", <<"p", "p">>)

DocCorrupt == Doc("png", SmallFile, FALSE, "ok", <<>>)

DocOcrRaises == Doc("png", SmallFile, TRUE, "raises", <<>>)

DocOcrHangs == Doc("png", SmallFile, TRUE, "hangs", <<>>)

DocNotImage == Doc("txt", SmallFile, TRUE, "ok", <<>>)

DocTooLarge == Doc("png", MAX_CONTENT_LENGTH + 1, TRUE, "ok", <<>>)

Docs ==
    {DocMatch, DocWords, DocNoMatch, DocCorrupt, DocOcrRaises, DocOcrHangs,
     DocNotImage, DocTooLarge}

\* is_image_file: the lower-cased extension is one of the accepted ones
is_image_file(ext) ==
    ext \in (IF variant = "Code2" THEN {"png", "jpg", "jpeg", "gif", "pdf"}
             ELSE {"png", "jpg", "jpeg", "gif"})

\* len(files) > app.config['MAX_FILES'], and the same without the limit
NoFileLimit(fs) == FALSE

TooManyFiles(fs) == Len(fs) > MAX_FILES

\* the first file the validation loop rejects, 0 if none
FirstRejected(fs) ==
    LET bad == {i \in 1..Len(fs) :
                   \/ ~is_image_file(fs[i].ext)
                   \/ fs[i].content_length > MAX_CONTENT_LENGTH}
    IN  IF bad = {} THEN 0 ELSE Min(bad)

ErrorResponse(msg) == [kind |-> "error", error |-> msg, fields |-> <<>>]

NoResponse == [kind |-> "none", error |-> "", fields |-> <<>>]

\* response[filenames[i]] = fields_list[i][1], taken from the other end
AggregateReversed(names, fl) ==
    [f \in {names[i] : i \in 1..Len(fl)} |->
        LET i == CHOOSE j \in 1..Len(fl) : names[j] = f
        IN  fl[Len(fl) + 1 - i][2]]

\* response = {}; for i in range(len(filenames)):
\*     response[filenames[i]] = fields_list[i][1]
Aggregate(names, fl) ==
    [f \in {names[i] : i \in 1..Len(fl)} |->
        LET i == Max({j \in 1..Len(fl) : names[j] = f})
        IN  fl[i][2]]

NotReady == [ready |-> FALSE, ok |-> TRUE, exc |-> "none", value |-> <<0, NoOutcome>>]

Ready(r) == [ready |-> TRUE, ok |-> r.ok, exc |-> r.exc, value |-> r.value]

N == Len(filenames)

\* worker processes of the pool that exist
WorkersAlive == IF pool.state \in {"open", "closed"} THEN pool.processes ELSE 0

Running == {i \in 1..N : task[i] = "running"}

Queued == {i \in 1..N : task[i] = "queued"}

-----------------------------------------------------------------------------
(* Initial states *)

TypeOK ==
    /\ pc \in {"request", "collect", "returned", "raised"}
    /\ pool.state \in {"none", "open", "closed", "joined"}
    /\ response.kind \in {"none", "error", "fields"}
    /\ Len(fields_list) <= N

Variants == {"Code1", "Code2"}

InitCall ==
    /\ variant \in Variants
    /\ pc = "request"
    /\ filenames = <<>>
    /\ pool = [state |-> "none", processes |-> 0]
    /\ task = <<>>
    /\ results = <<>>
    /\ fields_list = <<>>
    /\ response = NoResponse
    /\ exc = "none"

\* a request with up to MaxBatch files of any kind, or one file over the limit
Init ==
    /\ patterns \in BatchRuleSets
    /\ files \in SeqsUpTo(Docs, MaxBatch) \cup {[i \in 1..(MAX_FILES + 1) |-> DocNoMatch]}
    /\ InitCall

\* a request with one readable image whose recognised text is any text of at
\* most MaxLen characters, under any rule table
InitExtract ==
    /\ patterns \in RuleSets
    /\ files \in {<<Doc("png", SmallFile, TRUE, "ok", t)>> : t \in SeqsUpTo(Chars, MaxLen)}
    /\ InitCall

-----------------------------------------------------------------------------
(* upload() *)

\* lines 145-177: the validation of the request ('files[]' is absent from
\* request.files exactly when no file was sent), saving the files under
\* unique names (uuid4: pairwise distinct, here 1..n),
\* mp.Pool(processes=len(filenames)) and one apply_async per file
UploadStart ==
    /\ pc = "request"
    /\ IF Len(files) = 0 \/ TooManyFiles(files) \/ FirstRejected(files) # 0
       THEN /\ pc' = "returned"
            /\ response' =
                 IF Len(files) = 0 THEN ErrorResponse("No files selected for upload")
                 ELSE IF TooManyFiles(files) THEN ErrorResponse("Maximum files")
                 ELSE IF ~is_image_file(files[FirstRejected(files)].ext)
                      THEN ErrorResponse("is not an image file")
                      ELSE ErrorResponse("is too large")
            /\ UNCHANGED <<filenames, pool, task, results>>
       ELSE /\ pc' = "collect"
            /\ filenames' = [i \in 1..Len(files) |-> i]
            /\ pool' = [state |-> "open", processes |-> Len(files)]
            /\ task' = [i \in 1..Len(files) |-> "queued"]
            /\ results' = [i \in 1..Len(files) |-> NotReady]
            /\ UNCHANGED response
    /\ UNCHANGED <<variant, patterns, files, fields_list, exc>>

\* a pool worker takes the next task of the queue (FIFO)
WorkerStart ==
    /\ pool.state \in {"open", "closed"}
    /\ Queued # {}
    /\ Cardinality(Running) < pool.processes
    /\ task' = [task EXCEPT ![Min(Queued)] = "running"]
    /\ UNCHANGED <<variant, patterns, files, pc, filenames, pool, results, fields_list,
                   response, exc>>

\* a worker finishes process_file and sends the value, or the exception it
\* raised, back to the task's AsyncResult
WorkerFinish(i) ==
    /\ task[i] = "running"
    /\ ~Hangs(files[i])
    /\ task' = [task EXCEPT ![i] = "done"]
    /\ results' = [results EXCEPT
                     ![i] = Ready(process_file(filenames[i], files[i], patterns))]
    /\ UNCHANGED <<variant, patterns, files, pc, filenames, pool, fields_list, response, exc>>

\* one result.get() of the list comprehension: blocks until the result is
\* ready, returns its value or re-raises the worker's exception, which leaves
\* upload() (nothing catches it)
UploadGet ==
    /\ pc = "collect"
    /\ Len(fields_list) < N
    /\ LET r == results[Len(fields_list) + 1]
       IN  /\ r.ready
           /\ IF r.ok
              THEN /\ fields_list' = Append(fields_list, r.value)
                   /\ UNCHANGED <<pc, exc>>
              ELSE /\ pc' = "raised"
                   /\ exc' = r.exc
                   /\ UNCHANGED fields_list
    /\ UNCHANGED <<variant, patterns, files, filenames, pool, task, results, response>>

\* returning what was collected so far, without waiting for the rest
UploadFinishEarly ==
    /\ pc = "collect"
    /\ pool' = [pool EXCEPT !.state = "joined"]
    /\ response' = [kind |-> "fields", error |-> "",
                    fields |-> Aggregate(filenames, fields_list)]
    /\ pc' = "returned"
    /\ UNCHANGED <<variant, patterns, files, filenames, task, results, fields_list, exc>>

\* after the last get(): pool.close(), pool.join() (the workers exit once the
\* queue is drained), the response dict and the return
UploadFinish ==
    /\ pc = "collect"
    /\ Len(fields_list) = N
    /\ \A i \in 1..N : task[i] = "done"
    /\ pool' = [pool EXCEPT !.state = "joined"]
    /\ response' = [kind |-> "fields", error |-> "",
                    fields |-> Aggregate(filenames, fields_list)]
    /\ pc' = "returned"
    /\ UNCHANGED <<variant, patterns, files, filenames, task, results, fields_list, exc>>

Next ==
    \/ UploadStart
    \/ WorkerStart
    \/ \E i \in 1..N : WorkerFinish(i)
    \/ UploadGet
    \/ UploadFinish

Spec == Init /\ [][Next]_vars

SpecExtract == InitExtract /\ [][Next]_vars

\* WorkerFinish as it shows on task: the same guard, the same change of task
WorkerFinishes ==
    \E i \in 1..N :
        /\ task[i] = "running"
        /\ ~Hangs(files[i])
        /\ task' = [task EXCEPT ![i] = "done"]

\* the request handler runs whenever it is not blocked, idle workers take
\* queued tasks, and a unit whose OCR call returns finishes
FairSpec ==
    /\ Init
    /\ [][Next]_vars
    /\ WF_vars(UploadStart)
    /\ WF_vars(WorkerStart)
    /\ WF_vars(UploadGet)
    /\ WF_vars(UploadFinish)
    /\ WF_task(WorkerFinishes)

-----------------------------------------------------------------------------
(* Properties *)

Ended == pc \in {"returned", "raised"}

\* the request is turned away for a file's extension or size or for the
\* number of files
TransportRejects == TooManyFiles(files) \/ FirstRejected(files) # 0

\* the names of the rules whose pattern matches the text
MatchedNames(rules, text) ==
    {rules[j].name : j \in {k \in 1..Len(rules) : Search(rules[k], text).found}}

Reverse(s) == [i \in 1..Len(s) |-> s[Len(s) + 1 - i]]

\* what process_file gives for file i on its own; a failure as a descriptor
AloneOutcome(i) ==
    LET r == process_file(filenames[i], files[i], patterns)
    IN  IF r.ok THEN r.value[2]
        ELSE [tag |-> "failed", text |-> r.exc, fields |-> <<>>]

\* the results of the units that returned a value
Finished == {i \in 1..N : results[i].ready /\ results[i].ok}

\* C1 (batch completeness): whenever a batch call that the transport
\* validation let through has ended, it returned a result mapping whose keys are exactly
\* the identifiers of the submitted files, N entries for N files, N = 0
\* included.
C1_BatchCompleteness ==
    (Ended /\ ~TransportRejects) =>
        /\ response.kind = "fields"
        /\ DOMAIN response.fields = {filenames[i] : i \in 1..N}
        /\ Cardinality(DOMAIN response.fields) = Len(files)

\* C2 (failure isolation): whenever a batch call that created its pool has
\* ended, it returned a result mapping in which every file's entry is the
\* outcome the file has when processed alone, a failure descriptor for a
\* file whose unit failed.
C2_FailureIsolation ==
    (Ended /\ pool.state # "none") =>
        /\ response.kind = "fields"
        /\ \A i \in 1..N : /\ filenames[i] \in DOMAIN response.fields
                           /\ response.fields[filenames[i]] = AloneOutcome(i)

\* C3 (no partial results): when upload() has returned a result mapping,
\* every unit scheduled for the batch has completed and delivered its result.
C3_NoPartialResults ==
    (pc = "returned" /\ response.kind = "fields") =>
        /\ N = Len(files)
        /\ \A i \in 1..N : task[i] = "done" /\ results[i].ready

C3_Witness ==
    /\ pc = "returned"
    /\ response.kind = "fields"
    /\ N >= 2

\* C4 (sentinel correctness): the outcome of process_file is the sentinel
\* 'Not an Invoice Image' exactly when no rule matches the recognised text;
\* when at least one rule matches it is the non-empty field map.
C4_SentinelCorrectness ==
    \A i \in Finished :
        LET o       == results[i].value[2]
            matched == MatchedNames(patterns, files[i].text)
        IN  /\ (o.tag = "sentinel") <=> (matched = {})
            /\ o.tag = "sentinel" => o.text = SENTINEL
            /\ matched # {} => (o.tag = "fields" /\ DOMAIN o.fields # {})

C4_Witness ==
    \E i \in Finished :
        /\ Len(patterns) >= 2
        /\ Cardinality(MatchedNames(patterns, files[i].text)) = 1
        /\ results[i].value[2].tag = "fields"

\* C5 (partial match tolerance): the keys of the returned field map are
\* exactly the names of the rules that match the text, each value is the
\* first group of that rule's own search of the whole text, cleaned, and the
\* map is the same when the table is iterated in the reverse order.
C5_PartialMatchTolerance ==
    \A i \in Finished :
        LET o    == results[i].value[2]
            text == files[i].text
        IN  o.tag = "fields" =>
              /\ DOMAIN o.fields = MatchedNames(patterns, text)
              /\ \A j \in 1..Len(patterns) :
                    LET m == Search(patterns[j], text)
                    IN  m.found =>
                          o.fields[patterns[j].name] = FieldValue(Group1(patterns[j], m))
              /\ ExtractFields(Reverse(patterns), text).fields = o.fields

C5_Witness ==
    \E i \in Finished :
        /\ Len(patterns) >= 3
        /\ results[i].value[2].tag = "fields"
        /\ Cardinality(DOMAIN results[i].value[2].fields) = 2

\* C6 (bounded concurrency): the worker processes of a batch call, and the
\* units running at the same time, never exceed MAX_FILES, whatever the
\* number of files submitted.
C6_BoundedConcurrency ==
    /\ WorkersAlive <= MAX_FILES
    /\ Cardinality(Running) <= WorkersAlive

C6_Witness ==
    /\ WorkersAlive >= 2
    /\ Cardinality(Running) >= 2

\* C7 (termination under a stalled unit): every batch call eventually ends,
\* also when the OCR call of one of its units never returns.
C7_BatchEventuallyReturns == <>Ended

\* C8 (invalid rules fail fast): with a rule in the table that does not have
\* exactly one capture group, no batch processing begins, and no unit ever
\* fails on match.group(1).
C8_InvalidRulesFailFast ==
    (\E j \in 1..Len(patterns) : patterns[j].groups # 1) =>
        /\ pool.state = "none"
        /\ \A i \in 1..N : results[i].exc # "IndexError"

\* C9 (identifier/outcome association): in the returned mapping the entry
\* under a file's identifier is the outcome computed from that file, whatever
\* the order in which the workers finished; the mapping is written by the
\* parent only, when it returns.
C9_OutcomeAssociation ==
    /\ (pc = "returned" /\ response.kind = "fields") =>
           \A i \in 1..N :
               response.fields[filenames[i]] =
                   process_file(filenames[i], files[i], patterns).value[2]
    /\ pc # "returned" => response = NoResponse

C9_Witness ==
    /\ pc = "returned"
    /\ response.kind = "fields"
    /\ N >= 2
    /\ response.fields[filenames[1]] # response.fields[filenames[2]]

\* C10 (workers drained on every exit): whenever a batch call that created
\* its pool has ended, by returning or by a unit's exception, the pool has
\* been closed and joined and none of its workers is alive.
C10_WorkersDrained ==
    (Ended /\ pool.state # "none") =>
        /\ pool.state = "joined"
        /\ WorkersAlive = 0

=============================================================================
